---- MODULE Spec2Model ----
(***************************************************************************)
(* Model of api/src/main.rs: an in-memory ledger of five clients behind   *)
(* one tokio Mutex, served by two axum handlers, client_transaction       *)
(* (POST /clientes/:id/transacoes) and client_balance                     *)
(* (GET /clientes/:id/extrato).                                           *)
(***************************************************************************)
EXTENDS Integers, Sequences, FiniteSets, TLC

(***************************************************************************)
(* i64.  TLC's integers are 32 bits wide, so a 64-bit value is kept as    *)
(* three limbs, value = hi * 2^60 + mid * 2^30 + lo with 0 <= mid, lo <   *)
(* 2^30 and hi signed.  A value is an i64 exactly when -8 <= hi <= 7.     *)
(* Add and Sub below are the exact (mathematical) operations; Wrap        *)
(* reduces modulo 2^64 into the i64 range, as two's complement does.      *)
(***************************************************************************)
Limb == 2^30

\* The one element of a singleton.  Norm, Add, Sub and Mul10 bind their
\* arguments through a singleton so that each is evaluated once.
Only(S) == CHOOSE v \in S : TRUE

Norm(h, m, l) ==
    Only({ [hi |-> t[1] + ((t[2] + (t[3] \div Limb)) \div Limb),
            mid |-> (t[2] + (t[3] \div Limb)) % Limb,
            lo |-> t[3] % Limb] : t \in {<<h, m, l>>} })

I64(n) == Norm(0, 0, n)

Add(a, b) ==
    Only({ Norm(p[1].hi + p[2].hi, p[1].mid + p[2].mid, p[1].lo + p[2].lo) : p \in {<<a, b>>} })

Sub(a, b) ==
    Only({ Norm(p[1].hi - p[2].hi, p[1].mid - p[2].mid, p[1].lo - p[2].lo) : p \in {<<a, b>>} })

Lt(a, b) ==
    \/ a.hi < b.hi
    \/ a.hi = b.hi /\ a.mid < b.mid
    \/ a.hi = b.hi /\ a.mid = b.mid /\ a.lo < b.lo

Le(a, b) == a = b \/ Lt(a, b)

I64_MAX == [hi |-> 7, mid |-> Limb - 1, lo |-> Limb - 1]

I64_MIN == [hi |-> -8, mid |-> 0, lo |-> 0]

InI64(a) == a.hi >= -8 /\ a.hi <= 7

Wrap(a) == [a EXCEPT !.hi = ((a.hi + 8) % 16) - 8]

Zero == I64(0)

(***************************************************************************)
(* Text.  A String is a sequence of characters (code points), each a      *)
(* one-character string; chars().count() is the length of that sequence.  *)
(***************************************************************************)
Digits == <<"0", "1", "2", "3", "4", "5", "6", "7", "8", "9">>

IsDigit(ch) == \E i \in 1..10 : Digits[i] = ch

DigitVal(ch) == I64((CHOOSE i \in 1..10 : Digits[i] = ch) - 1)

Mul10(a) ==
    Only({ Add(Add(Add(a2, a2), Add(a2, a2)), a2) : a2 \in {Add(a, a)} })

ParseErr == [ok |-> FALSE, val |-> Zero]

RECURSIVE ParseDigits(_, _, _)
ParseDigits(s, acc, neg) ==
    IF s = <<>> THEN [ok |-> TRUE, val |-> acc]
    ELSE IF ~IsDigit(Head(s)) THEN ParseErr
    ELSE Only({ IF ~InI64(m) THEN ParseErr
                ELSE Only({ IF ~InI64(n) THEN ParseErr ELSE ParseDigits(Tail(s), n, neg)
                            : n \in { IF neg THEN Sub(m, DigitVal(Head(s)))
                                             ELSE Add(m, DigitVal(Head(s))) } })
                : m \in {Mul10(acc)} })

\* ParseI64 reading past a sign without keeping it.
ParseI64DropSign(s) ==
    IF s = <<>> THEN ParseErr
    ELSE IF Head(s) \in {"+", "-"}
         THEN IF Len(s) = 1 THEN ParseErr
              ELSE ParseDigits(Tail(s), Zero, FALSE)
         ELSE ParseDigits(s, Zero, FALSE)

\* str::parse::<i64>(): an optional sign, then one or more decimal digits,
\* the value within the i64 range; anything else is an Err.
ParseI64(s) ==
    IF s = <<>> THEN ParseErr
    ELSE IF Head(s) \in {"+", "-"}
         THEN IF Len(s) = 1 THEN ParseErr
              ELSE ParseDigits(Tail(s), Zero, Head(s) = "-")
         ELSE ParseDigits(s, Zero, FALSE)

\* descricao.chars().count()
CharsCount(s) == Len(s)

(***************************************************************************)
(* The data model.                                                         *)
(***************************************************************************)
\* Client::new(id, limite, saldo)
NewClient(id, limite, saldo) ==
    [id |-> I64(id), limite |-> I64(limite), saldo |-> I64(saldo), transacoes |-> <<>>]

\* ApiState::new()
NewApiState ==
    << NewClient(1, 100000, 0),
       NewClient(2, 80000, 0),
       NewClient(3, 1000000, 0),
       NewClient(4, 10000000, 0),
       NewClient(5, 500000, 0) >>

\* TransactionRequest, and the request a caller has in flight.
NoPayload == [valor |-> Zero, tipo |-> "", descricao |-> <<>>]

NoReq == [op |-> "none", client_id |-> <<>>, payload |-> NoPayload]

TransacaoReq(id, valor, tipo, descricao) ==
    [op |-> "transacoes", client_id |-> id,
     payload |-> [valor |-> valor, tipo |-> tipo, descricao |-> descricao]]

ExtratoReq(id) == [op |-> "extrato", client_id |-> id, payload |-> NoPayload]

\* What a handler hands back: a status with a body, or a panic of the task.
NoResult ==
    [kind |-> "none", status |-> 0, erro |-> "", limite |-> Zero, saldo |-> Zero,
     data_extrato |-> 0, ultimas_transacoes |-> <<>>]

ErrResp(status, erro) == [NoResult EXCEPT !.kind = "response", !.status = status, !.erro = erro]

Panic == [NoResult EXCEPT !.kind = "panic"]

TransactionOk(limite, saldo) ==
    [NoResult EXCEPT !.kind = "response", !.status = 200, !.limite = limite, !.saldo = saldo]

ClientBalanceOk(total, now, limite, ultimas) ==
    [NoResult EXCEPT !.kind = "response", !.status = 200, !.limite = limite, !.saldo = total,
                     !.data_extrato = now, !.ultimas_transacoes = ultimas]

\* The messages, without their accents and inner quotes.
ErrTipo == "Tipo invalido. Precisa ser c ou d"

ErrValor == "Valor deve ser positivo e maior do que zero"

ErrDescricao == "Descricao precisa estar entre 1 e 10 caracteres."

ErrLimite == "erro"

ErrId == "Id invalido"

(***************************************************************************)
(* The pure parts of client_transaction and client_balance.               *)
(***************************************************************************)
\* client_ids.contains(&id): the ids of the clients, in order.
ClientIds(cl) == [i \in 1..Len(cl) |-> cl[i].id]

Contains(ids, id) == \E i \in 1..Len(ids) : ids[i] = id

\* FindClient taking the id for a position in the Vec, which counts from 0.
FindClientByPosition(cl, id) ==
    ((CHOOSE i \in 1..Len(cl) : cl[i].id = id) % Len(cl)) + 1

\* client_list.iter_mut().find(|client| client.id == target_id): the first match.
FindClient(cl, id) ==
    CHOOSE i \in 1..Len(cl) : cl[i].id = id /\ \A j \in 1..(i - 1) : cl[j].id # id

\* TipoOk asking only for a tipo that is not empty.
TipoNonEmpty(tipo) == tipo # ""

TipoOk(tipo) == ~(tipo # "c" /\ tipo # "d")

\* ValorOk with valor < 0 for valor <= 0.
ValorNotNegative(valor) == ~Lt(valor, Zero)

ValorOk(valor) == ~Le(valor, Zero)

\* DescricaoOk without the lower bound.
DescricaoAtMostTen(descricao) == CharsCount(descricao) <= 10

DescricaoOk(descricao) == CharsCount(descricao) > 0 /\ CharsCount(descricao) <= 10

\* ValidationError with the valor rule tried before the tipo rule.
ValidationErrorValorFirst(payload) ==
    IF ~ValorOk(payload.valor) THEN ErrValor
    ELSE IF ~TipoOk(payload.tipo) THEN ErrTipo
    ELSE IF ~DescricaoOk(payload.descricao) THEN ErrDescricao
    ELSE ""

\* The three early returns, in the order of the code; "" when none is taken.
ValidationError(payload) ==
    IF ~TipoOk(payload.tipo) THEN ErrTipo
    ELSE IF ~ValorOk(payload.valor) THEN ErrValor
    ELSE IF ~DescricaoOk(payload.descricao) THEN ErrDescricao
    ELSE ""

\* match operation.as_str() { "c" => ..., "d" => ..., _ => current_balance },
\* before the result is fitted into an i64.
FutureValueExact(operation, current_balance, value) ==
    CASE operation = "c" -> Add(current_balance, value)
      [] operation = "d" -> Sub(current_balance, value)
      [] OTHER -> current_balance

\* OverLimit with <= for <.
OverLimitInclusive(future_value, limit) == Le(future_value, Sub(Zero, limit))

\* OverLimit with the bound off by one: future_value + 1 < (0 - limit)
OverLimitOffByOne(future_value, limit) ==
    Lt(Add(future_value, I64(1)), Sub(Zero, limit))

\* future_value < (0 - limit)
OverLimit(future_value, limit) == Lt(future_value, Sub(Zero, limit))

\* transacoes.iter().rev().take(10).cloned().collect()
Rev(s) == [i \in 1..Len(s) |-> s[Len(s) + 1 - i]]

Take(s, n) == SubSeq(s, 1, IF Len(s) < n THEN Len(s) ELSE n)

\* UltimasTransacoes without the rev(): the first ten, oldest first.
PrimeirasTransacoes(transacoes) == Take(transacoes, 10)

UltimasTransacoes(transacoes) == Take(Rev(transacoes), 10)

\* Client::add_transacao
AddTransacaoTo(client, t) == [client EXCEPT !.transacoes = Append(@, t)]

\* UpdateSaldoOf writing the other i64 field of the client.
UpdateLimiteOf(client, new_saldo) == [client EXCEPT !.limite = new_saldo]

\* Client::update_saldo
UpdateSaldoOf(client, new_saldo) == [client EXCEPT !.saldo = new_saldo]

(***************************************************************************)
(* The state.                                                              *)
(***************************************************************************)
VARIABLES
    client_list,      \* ApiState.client_list: Vec<Client>
    overflow_checks,  \* the build: TRUE panics on i64 overflow (dev), FALSE wraps (release)
    holder,           \* the caller that holds the MutexGuard, 0 when the Mutex is free
    waiters,          \* the callers inside state.lock().await, first come first
    pc,               \* where each caller's handler is
    req,              \* the request each caller's handler was given
    future_value,     \* each handler's local future_value
    result,           \* the value each handler is returning
    clock,            \* what Utc::now() reads next
    issued            \* the number of requests made so far

vars == <<client_list, overflow_checks, holder, waiters, pc, req, future_value, result,
          clock, issued>>

NumCallers == 2

Callers == 1..NumCallers

\* The requests made in the three specifications are bounded in number.
MaxRequests == 3

MaxWide == 1

MaxLong == 12

(***************************************************************************)
(* The requests the callers make.                                          *)
(***************************************************************************)
Dep == <<"d", "e", "p">>

Id1 == <<"1">>

Id2 == <<"2">>

Id999 == <<"9", "9", "9">>

\* Two callers at once: few requests, chosen around the limit of client 1
\* and the ends of the i64 range.
Menu ==
    { TransacaoReq(Id1, I64(1), "c", Dep),
      TransacaoReq(Id1, I64(1), "d", Dep),
      TransacaoReq(Id1, I64(100000), "d", Dep),
      TransacaoReq(Id1, I64_MAX, "c", Dep),
      TransacaoReq(Id1, I64_MAX, "d", Dep),
      TransacaoReq(Id1, I64(1), "x", Dep),
      TransacaoReq(Id2, I64(1), "c", Dep),
      TransacaoReq(Id999, I64(1), "c", Dep),
      TransacaoReq(<<"a">>, I64(1), "c", Dep),
      ExtratoReq(Id1),
      ExtratoReq(Id999),
      ExtratoReq(<<"a">>) }

\* One caller: every combination of the three fields of the payload.
WideIds == { Id1, <<"5">>, <<"0">>, <<"6">>, Id999, <<"-", "1">>, <<"+", "1">>, <<"a">>, <<>> }

WideTipos == {"c", "d", "x", ""}

WideValores == { I64(-1), Zero, I64(1), I64(100000), I64(100001), I64_MAX, I64_MIN }

WideDescricoes ==
    { <<>>, Dep,
      <<"d", "e", "s", "c", "r", "i", "c,", "a~", "o", "s">>,
      <<"a", "b", "c", "d", "e", "f", "g", "h", "i", "j", "k">> }

WideMenu ==
    { TransacaoReq(id, v, t, d) : id \in WideIds, v \in WideValores, t \in WideTipos,
                                  d \in WideDescricoes }
    \cup { ExtratoReq(id) : id \in WideIds }

\* One caller, one client: a long run of small credits and statements, with
\* a debit beyond the limit and an unknown id among them.
LongMenu ==
    { TransacaoReq(Id1, I64(1), "c", Dep),
      TransacaoReq(Id1, I64(200000), "d", Dep),
      TransacaoReq(Id999, I64(1), "c", Dep),
      ExtratoReq(Id1) }

(***************************************************************************)
(* The handlers, step by step.                                             *)
(***************************************************************************)
Init ==
    /\ client_list = NewApiState
    /\ overflow_checks \in BOOLEAN
    /\ holder = 0
    /\ waiters = <<>>
    /\ pc = [c \in Callers |-> "idle"]
    /\ req = [c \in Callers |-> NoReq]
    /\ future_value = [c \in Callers |-> Zero]
    /\ result = [c \in Callers |-> NoResult]
    /\ clock = 0
    /\ issued = 0

\* The router hands a request to a handler, which starts state.lock().await.
Request(c, menu, max) ==
    /\ pc[c] = "idle"
    /\ issued < max
    /\ \E r \in menu : req' = [req EXCEPT ![c] = r]
    /\ pc' = [pc EXCEPT ![c] = "lock"]
    /\ waiters' = Append(waiters, c)
    /\ issued' = issued + 1
    /\ UNCHANGED <<client_list, overflow_checks, holder, future_value, result, clock>>

\* The handler going on without waiting for the Mutex to be free.
MutexIgnored == TRUE

\* A Mutex that lets a second caller in while the holder is still at work.
MutexFreeOrBusy == IF holder = 0 THEN TRUE ELSE pc[holder] # "ret"

\* tokio::sync::Mutex: one holder at a time.
MutexFree == holder = 0

\* state.lock().await completes: the Mutex is free and c is first in line.
Acquire(c) ==
    /\ pc[c] = "lock"
    /\ MutexFree
    /\ waiters # <<>> /\ Head(waiters) = c
    /\ holder' = c
    /\ waiters' = Tail(waiters)
    /\ pc' = [pc EXCEPT ![c] = "locked"]
    /\ UNCHANGED <<client_list, overflow_checks, req, future_value, result, clock, issued>>

\* Decide with add_transacao called before the limit check instead of after it.
DecidePushFirst(cl, r, checks) ==
    LET parsed == ParseI64(r.client_id)
        stop(res, l) == [go |-> FALSE, res |-> res, fv |-> Zero, cl |-> l]
    IN  IF ~parsed.ok THEN stop(Panic, cl)
        ELSE IF ~Contains(ClientIds(cl), parsed.val) THEN stop(ErrResp(404, ErrId), cl)
        ELSE LET i == FindClient(cl, parsed.val)
                 err == ValidationError(r.payload)
                 exact == FutureValueExact(r.payload.tipo, cl[i].saldo, r.payload.valor)
                 pushed == [cl EXCEPT ![i].transacoes =
                               Append(@, [valor |-> r.payload.valor, tipo |-> r.payload.tipo,
                                          descricao |-> r.payload.descricao, realizada_em |-> 0])]
             IN  IF err # "" THEN stop(ErrResp(422, err), cl)
                 ELSE IF ~InI64(exact) /\ checks THEN stop(Panic, cl)
                 ELSE IF OverLimit(Wrap(exact), cl[i].limite)
                      THEN stop(ErrResp(422, ErrLimite), pushed)
                      ELSE [go |-> TRUE, res |-> NoResult, fv |-> Wrap(exact), cl |-> cl]

\* client_transaction from the lookup to the limit check: what it decides
\* on the client list cl for request r.  go: the handler goes on to
\* add_transacao with future_value fv; otherwise it returns res.  cl: the
\* client list as these lines leave it (they write nothing).
Decide(cl, r, checks) ==
    LET parsed == ParseI64(r.client_id)
        stop(res) == [go |-> FALSE, res |-> res, fv |-> Zero, cl |-> cl]
    IN  IF ~parsed.ok THEN stop(Panic)
        ELSE IF ~Contains(ClientIds(cl), parsed.val) THEN stop(ErrResp(404, ErrId))
        ELSE LET target_client == cl[FindClient(cl, parsed.val)]
                 err == ValidationError(r.payload)
                 exact == FutureValueExact(r.payload.tipo, target_client.saldo, r.payload.valor)
             IN  IF err # "" THEN stop(ErrResp(422, err))
                 ELSE IF ~InI64(exact) /\ checks THEN stop(Panic)
                 ELSE IF OverLimit(Wrap(exact), target_client.limite)
                      THEN stop(ErrResp(422, ErrLimite))
                      ELSE [go |-> TRUE, res |-> NoResult, fv |-> Wrap(exact), cl |-> cl]

\* What the handler of caller c decides in the current state.
Decision(c) == Decide(client_list, req[c], overflow_checks)

Validate(c) ==
    /\ pc[c] = "locked"
    /\ req[c].op = "transacoes"
    /\ pc' = [pc EXCEPT ![c] = IF Decision(c).go THEN "add" ELSE "ret"]
    /\ result' = [result EXCEPT ![c] = Decision(c).res]
    /\ future_value' = [future_value EXCEPT ![c] = Decision(c).fv]
    /\ client_list' = Decision(c).cl
    /\ UNCHANGED <<overflow_checks, holder, waiters, req, clock, issued>>

\* The client a handler past the lookup works on.
Target(c) == FindClient(client_list, ParseI64(req[c].client_id).val)

NewTransaction(payload, now) ==
    [valor |-> payload.valor, tipo |-> payload.tipo, descricao |-> payload.descricao,
     realizada_em |-> now]

AddTransacao(c) ==
    /\ pc[c] = "add"
    /\ client_list' = [client_list EXCEPT
                         ![Target(c)] = AddTransacaoTo(@, NewTransaction(req[c].payload, clock))]
    /\ clock' = clock + 1
    /\ pc' = [pc EXCEPT ![c] = "update"]
    /\ UNCHANGED <<overflow_checks, holder, waiters, req, future_value, result, issued>>

UpdateSaldo(c) ==
    /\ pc[c] = "update"
    /\ client_list' = [client_list EXCEPT ![Target(c)] = UpdateSaldoOf(@, future_value[c])]
    /\ result' = [result EXCEPT ![c] = TransactionOk(client_list'[Target(c)].limite,
                                                      client_list'[Target(c)].saldo)]
    /\ future_value' = [future_value EXCEPT ![c] = Zero]
    /\ pc' = [pc EXCEPT ![c] = "ret"]
    /\ UNCHANGED <<overflow_checks, holder, waiters, req, clock, issued>>

\* client_balance after the lock: the response, and the client list it leaves.
Statement(cl, r, now) ==
    LET parsed == ParseI64(r.client_id)
    IN  IF ~parsed.ok THEN Panic
        ELSE IF ~Contains(ClientIds(cl), parsed.val) THEN ErrResp(404, ErrId)
        ELSE LET target_client == cl[FindClient(cl, parsed.val)]
             IN  ClientBalanceOk(target_client.saldo, now, target_client.limite,
                                 UltimasTransacoes(target_client.transacoes))

\* AfterStatement with the history cut down to the ten entries it returns.
AfterStatementTruncated(cl, r) ==
    LET parsed == ParseI64(r.client_id)
    IN  IF parsed.ok /\ Contains(ClientIds(cl), parsed.val)
        THEN [cl EXCEPT ![FindClient(cl, parsed.val)].transacoes =
                 SubSeq(@, IF Len(@) > 10 THEN Len(@) - 9 ELSE 1, Len(@))]
        ELSE cl

\* AfterStatement with the history reversed in place (Vec::reverse) before the take.
AfterStatementReversed(cl, r) ==
    LET parsed == ParseI64(r.client_id)
    IN  IF parsed.ok /\ Contains(ClientIds(cl), parsed.val)
        THEN [cl EXCEPT ![FindClient(cl, parsed.val)].transacoes = Rev(@)]
        ELSE cl

\* iter_mut() lends the client mutably, and nothing is written through it.
AfterStatement(cl, r) == cl

ReadBalance(c) ==
    /\ pc[c] = "locked"
    /\ req[c].op = "extrato"
    /\ result' = [result EXCEPT ![c] = Statement(client_list, req[c], clock)]
    /\ clock' = IF result'[c].status = 200 THEN clock + 1 ELSE clock
    /\ client_list' = AfterStatement(client_list, req[c])
    /\ pc' = [pc EXCEPT ![c] = "ret"]
    /\ UNCHANGED <<overflow_checks, holder, waiters, req, future_value, issued>>

\* Return with a guard that a panic does not release (a lock left held, or
\* poisoned, by the unwinding task).
ReturnKeepsGuardOnPanic(c) ==
    /\ pc[c] = "ret"
    /\ holder' = IF result[c].kind = "panic" THEN holder ELSE 0
    /\ pc' = [pc EXCEPT ![c] = "idle"]
    /\ req' = [req EXCEPT ![c] = NoReq]
    /\ result' = [result EXCEPT ![c] = NoResult]
    /\ UNCHANGED <<client_list, overflow_checks, waiters, future_value, clock, issued>>

\* The handler returns, or its panic unwinds: the MutexGuard is dropped and
\* the result goes to the caller.
Return(c) ==
    /\ pc[c] = "ret"
    /\ holder' = 0
    /\ pc' = [pc EXCEPT ![c] = "idle"]
    /\ req' = [req EXCEPT ![c] = NoReq]
    /\ result' = [result EXCEPT ![c] = NoResult]
    /\ UNCHANGED <<client_list, overflow_checks, waiters, future_value, clock, issued>>

Step(c) ==
    \/ Acquire(c)
    \/ Validate(c)
    \/ AddTransacao(c)
    \/ UpdateSaldo(c)
    \/ ReadBalance(c)
    \/ Return(c)

Next == \E c \in Callers : Request(c, Menu, MaxRequests) \/ Step(c)

Spec == Init /\ [][Next]_vars

NextWide == Request(1, WideMenu, MaxWide) \/ Step(1)

SpecWide == Init /\ [][NextWide]_vars

NextLong == Request(1, LongMenu, MaxLong) \/ Step(1)

SpecLong == Init /\ [][NextLong]_vars

\* The runtime keeps polling a handler that can go on: weak fairness of
\* each caller's steps.  No fairness is asked of the callers' requests.
Fairness == \A c \in Callers : WF_vars(Step(c))

\* Two callers at once, one request for each way a handler can end.
FairMenu ==
    { TransacaoReq(Id1, I64(1), "c", Dep),
      TransacaoReq(Id1, I64(1), "x", Dep),
      TransacaoReq(Id1, I64_MAX, "d", Dep),
      TransacaoReq(<<"9">>, I64(1), "c", Dep),
      TransacaoReq(<<"a">>, I64(1), "c", Dep),
      ExtratoReq(Id1),
      ExtratoReq(<<"9">>),
      ExtratoReq(<<"a">>) }

MaxFair == 2

NextFair == \E c \in Callers : Request(c, FairMenu, MaxFair) \/ Step(c)

SpecFair == Init /\ [][NextFair]_vars /\ Fairness

\* Callers at once on clients 1 and 2: debits up to and past each limit,
\* a credit, and the statement of each.
PairMenu ==
    { TransacaoReq(Id1, I64(100000), "d", Dep),
      TransacaoReq(Id1, I64(1), "d", Dep),
      TransacaoReq(Id2, I64(80000), "d", Dep),
      TransacaoReq(Id2, I64(1), "c", Dep),
      ExtratoReq(Id1),
      ExtratoReq(Id2) }

MaxPair == 3

NextPair == \E c \in Callers : Request(c, PairMenu, MaxPair) \/ Step(c)

SpecPair == Init /\ [][NextPair]_vars

(***************************************************************************)
(* The properties.                                                         *)
(***************************************************************************)
Clients == 1..Len(client_list)

\* A caller's handler holds a response with this status.
Returning(c, op, status) ==
    /\ pc[c] = "ret"
    /\ req[c].op = op
    /\ result[c].kind = "response"
    /\ result[c].status = status

\* C1: in every reachable state every account has balance >= -creditLimit.
C1_BalanceWithinLimit ==
    \A i \in Clients : Le(Sub(Zero, client_list[i].limite), client_list[i].saldo)

\* A debit has taken client 1 exactly to its limit, and a further debit was refused.
C1_Witness ==
    /\ client_list[1].saldo = I64(-100000)
    /\ \E c \in Callers : Returning(c, "transacoes", 422) /\ result[c].erro = ErrLimite

\* C2: a handler of client_transaction that ends its decision with a
\* rejection (a validation rule or the limit) leaves every client's balance
\* and history as they were.
C2_RejectedNoOp ==
    [][\A c \in Callers :
          ( /\ pc[c] = "locked"
            /\ req[c].op = "transacoes"
            /\ pc'[c] = "ret"
            /\ result'[c].kind = "response"
            /\ result'[c].status = 422 )
          => client_list' = client_list]_vars

\* A debit of 100001 on client 1 was refused for the limit, nothing written.
C2_Witness ==
    \E c \in Callers :
        /\ Returning(c, "transacoes", 422)
        /\ result[c].erro = ErrLimite
        /\ req[c].payload.valor = I64(100001)
        /\ client_list[1].transacoes = <<>>
        /\ client_list[1].saldo = Zero

\* The net amount of a sequence of transactions, in i64 arithmetic.
RECURSIVE NetOf(_)
NetOf(ts) ==
    IF ts = <<>> THEN Zero
    ELSE LET t == Head(ts)
             rest == NetOf(Tail(ts))
         IN  Wrap(IF t.tipo = "c" THEN Add(rest, t.valor) ELSE Sub(rest, t.valor))

\* C3: a successful client_transaction returns the balance a statement
\* shows, with its transaction first in the statement's list; and a
\* statement never shows a balance without its transaction or a transaction
\* without its effect on the balance (the balance is the net of the listed
\* transactions whenever the list is the whole history).
C3_Atomic ==
    \A c \in Callers :
        /\ Returning(c, "transacoes", 200) =>
              LET st == Statement(client_list, ExtratoReq(req[c].client_id), clock)
              IN  /\ st.status = 200
                  /\ st.saldo = result[c].saldo
                  /\ st.limite = result[c].limite
                  /\ st.ultimas_transacoes # <<>>
                  /\ st.ultimas_transacoes[1].valor = req[c].payload.valor
                  /\ st.ultimas_transacoes[1].tipo = req[c].payload.tipo
                  /\ st.ultimas_transacoes[1].descricao = req[c].payload.descricao
        /\ Returning(c, "extrato", 200) =>
              ( Len(result[c].ultimas_transacoes) < 10
                  => result[c].saldo = NetOf(result[c].ultimas_transacoes) )

\* A statement of client 1 that lists a transaction is returned while the
\* other caller has a transaction for client 1 waiting for the Mutex.
C3_Witness ==
    \E c, d \in Callers :
        /\ c # d
        /\ Returning(c, "extrato", 200)
        /\ result[c].ultimas_transacoes # <<>>
        /\ pc[d] = "lock"
        /\ req[d].op = "transacoes"
        /\ req[d].client_id = req[c].client_id

\* The exact (unbounded) net amount of a sequence of transactions.
RECURSIVE ExactNetOf(_)
ExactNetOf(ts) ==
    IF ts = <<>> THEN Zero
    ELSE LET t == ts[Len(ts)]
             rest == ExactNetOf(SubSeq(ts, 1, Len(ts) - 1))
         IN  IF t.tipo = "c" THEN Add(rest, t.valor) ELSE Sub(rest, t.valor)

\* C4: once every call has returned, each balance is the initial balance
\* (zero) plus the accepted credits minus the accepted debits, and the
\* accepted requests in the order of the history each passed the limit check
\* on the balance left by the ones before it.
C4_SerialConsistency ==
    (\A c \in Callers : pc[c] = "idle") =>
        \A i \in Clients :
            /\ client_list[i].saldo = ExactNetOf(client_list[i].transacoes)
            /\ \A n \in 1..Len(client_list[i].transacoes) :
                  Le(Sub(Zero, client_list[i].limite),
                     ExactNetOf(SubSeq(client_list[i].transacoes, 1, n)))

\* C5: a statement lists min(10, k) transactions of the k applied to the
\* client, the most recent first, each in its place.
C5_LastTenMostRecentFirst ==
    \A c \in Callers :
        Returning(c, "extrato", 200) =>
            LET h == client_list[Target(c)].transacoes
                u == result[c].ultimas_transacoes
            IN  /\ Len(u) = (IF Len(h) < 10 THEN Len(h) ELSE 10)
                /\ \A n \in 1..Len(u) : u[n] = h[Len(h) + 1 - n]

\* After eleven credits the statement lists ten and leaves the first out.
C5_Witness ==
    \E c \in Callers :
        /\ Returning(c, "extrato", 200)
        /\ Len(client_list[Target(c)].transacoes) = 11
        /\ Len(result[c].ultimas_transacoes) = 10
        /\ result[c].ultimas_transacoes[1] = client_list[Target(c)].transacoes[11]
        /\ result[c].ultimas_transacoes[10] = client_list[Target(c)].transacoes[2]

\* Texts of integers that are the id of no client.
UnknownIds == { <<"0">>, <<"6">>, Id999, <<"-", "1">> }

KnownIds == { Id1, Id2, <<"5">> }

\* The payload breaks one of the three rules, stated on the payload alone.
BreaksARule(payload) ==
    \/ payload.tipo \notin {"c", "d"}
    \/ ~Lt(Zero, payload.valor)
    \/ Len(payload.descricao) \notin 1..10

ValidationRejected(res) ==
    /\ res.kind = "response"
    /\ res.status = 422
    /\ res.erro \in {ErrTipo, ErrValor, ErrDescricao}

\* C7: a request to an existing client is rejected by validation exactly
\* when its payload breaks one of the three rules, whatever the other fields.
C7_ValidationIff ==
    \A c \in Callers :
        (req[c].op = "transacoes" /\ req[c].client_id \in KnownIds) =>
            /\ pc[c] \in {"add", "update"} => ~BreaksARule(req[c].payload)
            /\ pc[c] = "ret" => (ValidationRejected(result[c]) <=> BreaksARule(req[c].payload))

\* A payload whose only fault is a description of eleven characters is rejected.
C7_Witness ==
    \E c \in Callers :
        /\ Returning(c, "transacoes", 422)
        /\ req[c].client_id = Id1
        /\ req[c].payload.tipo = "d"
        /\ req[c].payload.valor = I64(1)
        /\ Len(req[c].payload.descricao) = 11
        /\ result[c].erro = ErrDescricao

\* C8: a tipo other than "c" and "d" never gets past validation: a handler
\* that goes on to write has tipo "c" or "d" and a future_value that differs
\* from the balance, and a request with another tipo is never answered 200
\* and, when answered 422, carries the tipo message.
C8_NoSilentFallback ==
    \A c \in Callers :
        req[c].op = "transacoes" =>
            /\ pc[c] \in {"add", "update"} =>
                  /\ req[c].payload.tipo \in {"c", "d"}
                  /\ future_value[c] # client_list[Target(c)].saldo
            /\ (pc[c] = "ret" /\ req[c].payload.tipo \notin {"c", "d"}) =>
                  /\ ~(result[c].kind = "response" /\ result[c].status = 200)
                  /\ (result[c].kind = "response" /\ result[c].status = 422)
                        => result[c].erro = ErrTipo

\* A request with tipo "x" and nothing else wrong is rejected for its tipo.
C8_Witness ==
    \E c \in Callers :
        /\ Returning(c, "transacoes", 422)
        /\ req[c].client_id = Id1
        /\ req[c].payload = [valor |-> I64(1), tipo |-> "x", descricao |-> Dep]
        /\ result[c].erro = ErrTipo

\* C9: a successful client_transaction sets the balance to the balance plus
\* the amount for a credit and minus the amount for a debit, and returns the
\* client's limit and that balance.
C9_AppliedExactly ==
    [][\A c \in Callers :
          (pc[c] = "update" /\ pc'[c] = "ret") =>
              LET i == Target(c)
                  before == client_list[i].saldo
                  amount == req[c].payload.valor
              IN  /\ client_list'[i].saldo =
                        (IF req[c].payload.tipo = "c" THEN Add(before, amount)
                                                      ELSE Sub(before, amount))
                  /\ result'[c] = TransactionOk(client_list[i].limite, client_list'[i].saldo)]_vars

\* C10: client_balance writes nothing: whatever the id, the step that
\* builds its answer leaves every client as it was.
C10_StatementReadOnly ==
    [][\A c \in Callers :
          (pc[c] = "locked" /\ req[c].op = "extrato" /\ pc'[c] # "locked")
          => client_list' = client_list]_vars

\* A statement that lists two transactions has been built.
C10_Witness ==
    \E c \in Callers :
        /\ Returning(c, "extrato", 200)
        /\ Len(result[c].ultimas_transacoes) >= 2

\* C11: under fair scheduling a caller waiting in state.lock().await
\* eventually holds the guard: every exit path, the panics included, gives
\* the guard back.
C11_WaiterAcquires ==
    \A c \in Callers : (pc[c] = "lock") ~> (pc[c] = "locked")

\* A caller waits for the Mutex while the holder is unwinding from a panic.
C11_Witness ==
    \E c, d \in Callers :
        /\ pc[c] = "lock"
        /\ pc[d] = "ret"
        /\ holder = d
        /\ result[d].kind = "panic"

\* The callers whose handler is between the lock and its return.
InGuard == { c \in Callers : pc[c] \in {"locked", "add", "update", "ret"} }

\* Every balance is the net of its history: no write is half done.
Settled(cl) == \A i \in 1..Len(cl) : cl[i].saldo = NetOf(cl[i].transacoes)

\* C12: at most one handler is inside the guarded section, and it is the
\* holder; outside of a handler's two writes every balance is the net of its
\* history, and a statement is the one of the client list as it stands, which
\* is the state left by the handlers that held the guard before.
C12_OneAtATime ==
    /\ Cardinality(InGuard) <= 1
    /\ \A c \in InGuard : holder = c
    /\ (\A c \in Callers : pc[c] # "update") => Settled(client_list)
    /\ \A c \in Callers :
          Returning(c, "extrato", 200) =>
              result[c] = Statement(client_list, req[c], result[c].data_extrato)

\* A handler is between add_transacao and update_saldo while the other
\* caller waits for the Mutex with a statement of the same client.
C12_Witness ==
    \E c, d \in Callers :
        /\ pc[c] = "update"
        /\ pc[d] = "lock"
        /\ req[d] = ExtratoReq(req[c].client_id)

\* ApiState::new(), as ids and limits.
Registry == << <<1, 100000>>, <<2, 80000>>, <<3, 1000000>>, <<4, 10000000>>, <<5, 500000>> >>

\* C13: the registry always holds the clients 1..5 with the limits 100000,
\* 80000, 1000000, 10000000 and 500000, and before any request every
\* balance is zero and every history empty.
C13_RegistryFixed ==
    /\ Len(client_list) = 5
    /\ \A i \in 1..5 :
          /\ client_list[i].id = I64(Registry[i][1])
          /\ client_list[i].limite = I64(Registry[i][2])
    /\ issued = 0 =>
          \A i \in 1..5 : client_list[i].saldo = Zero /\ client_list[i].transacoes = <<>>

\* Clients 1 and 2 have both been written to.
C13_Witness ==
    /\ client_list[1].saldo # Zero
    /\ client_list[2].transacoes # <<>>
    /\ \A c \in Callers : pc[c] = "idle"

\* The client with the id a caller asks for, 0 when there is none.
Asked(c) ==
    IF \E i \in Clients : ParseI64(req[c].client_id).ok
                          /\ client_list[i].id = ParseI64(req[c].client_id).val
    THEN CHOOSE i \in Clients : client_list[i].id = ParseI64(req[c].client_id).val
    ELSE 0

\* C14: every step keeps each history as a prefix of the next; a history
\* grows by one entry exactly in the add_transacao of a handler for that
\* client, and in no other step.
C14_AppendOnly ==
    [][\A i \in Clients :
          LET h == client_list[i].transacoes
              k == client_list'[i].transacoes
          IN  /\ Len(k) >= Len(h)
              /\ SubSeq(k, 1, Len(h)) = h
              /\ Len(k) <= Len(h) + 1
              /\ Len(k) = Len(h) + 1
                    <=> \E c \in Callers : pc[c] = "add" /\ pc'[c] = "update" /\ Asked(c) = i]_vars

\* A statement of a client with eleven entries has been built, with all
\* eleven still in the history.
C14_Witness ==
    /\ Len(client_list[1].transacoes) = 11
    /\ \E c \in Callers : Returning(c, "extrato", 200)

\* C15: every stored transaction has valor > 0, tipo "c" or "d" and a
\* description of 1 to 10 characters.
C15_StoredWellFormed ==
    \A i \in Clients :
        \A n \in 1..Len(client_list[i].transacoes) :
            LET t == client_list[i].transacoes[n]
            IN  /\ Lt(Zero, t.valor)
                /\ t.tipo \in {"c", "d"}
                /\ Len(t.descricao) \in 1..10

\* A transaction with a description of ten characters is stored.
C15_Witness ==
    \E i \in Clients :
        /\ client_list[i].transacoes # <<>>
        /\ Len(client_list[i].transacoes[1].descricao) = 10

\* C16: on an existing client a payload that breaks a rule is answered with
\* the message of the first rule it breaks, in the order tipo, valor,
\* descricao; a payload that breaks none is refused only with the limit
\* message; and the four messages differ from one another.
C16_SpecificReasons ==
    /\ Cardinality({ErrTipo, ErrValor, ErrDescricao, ErrLimite}) = 4
    /\ \A c \in Callers :
          (pc[c] = "ret" /\ req[c].op = "transacoes" /\ req[c].client_id \in KnownIds) =>
              LET p == req[c].payload
                  bad_tipo == p.tipo \notin {"c", "d"}
                  bad_valor == ~Lt(Zero, p.valor)
                  bad_descricao == Len(p.descricao) \notin 1..10
              IN  /\ bad_tipo => result[c] = ErrResp(422, ErrTipo)
                  /\ (~bad_tipo /\ bad_valor) => result[c] = ErrResp(422, ErrValor)
                  /\ (~bad_tipo /\ ~bad_valor /\ bad_descricao)
                        => result[c] = ErrResp(422, ErrDescricao)
                  /\ (~bad_tipo /\ ~bad_valor /\ ~bad_descricao
                        /\ result[c].kind = "response" /\ result[c].status # 200)
                        => result[c] = ErrResp(422, ErrLimite)

\* A payload that breaks all three rules is answered with the tipo message.
C16_Witness ==
    \E c \in Callers :
        /\ Returning(c, "transacoes", 422)
        /\ req[c].client_id = Id1
        /\ req[c].payload = [valor |-> Zero, tipo |-> "x", descricao |-> <<>>]
        /\ result[c].erro = ErrTipo

\* C17: a valid debit that would leave exactly -limite goes on to be
\* applied with that balance, and one that would leave -limite - 1 is
\* refused with the limit message.
C17_StrictLimit ==
    [][\A c \in Callers :
          ( /\ pc[c] = "locked"
            /\ pc'[c] # "locked"
            /\ req[c].op = "transacoes"
            /\ req[c].client_id \in KnownIds
            /\ ~BreaksARule(req[c].payload)
            /\ req[c].payload.tipo = "d" ) =>
              LET client == client_list[Asked(c)]
                  candidate == Sub(client.saldo, req[c].payload.valor)
                  lowest == Sub(Zero, client.limite)
              IN  /\ candidate = lowest =>
                        pc'[c] = "add" /\ future_value'[c] = lowest
                  /\ candidate = Sub(lowest, I64(1)) =>
                        pc'[c] = "ret" /\ result'[c] = ErrResp(422, ErrLimite)]_vars

\* A debit of 100000 on client 1 has been answered 200 with balance -100000.
C17_Witness ==
    \E c \in Callers :
        /\ Returning(c, "transacoes", 200)
        /\ req[c].payload.valor = I64(100000)
        /\ result[c].saldo = I64(-100000)
        /\ result[c].limite = I64(100000)

\* C18: an accepted debit leaves a balance strictly below the one it found.
C18_DebitDecreases ==
    [][\A c \in Callers :
          (pc[c] = "update" /\ pc'[c] = "ret" /\ req[c].payload.tipo = "d") =>
              Lt(client_list'[Asked(c)].saldo, client_list[Asked(c)].saldo)]_vars

\* C19: a valid credit to an existing client is answered 200.
C19_CreditSucceeds ==
    \A c \in Callers :
        ( /\ pc[c] = "ret"
          /\ req[c].op = "transacoes"
          /\ req[c].client_id \in KnownIds
          /\ ~BreaksARule(req[c].payload)
          /\ req[c].payload.tipo = "c" ) =>
            result[c].kind = "response" /\ result[c].status = 200

\* The client list with every client but i as ApiState::new() makes it.
Alone(i) == [j \in Clients |-> IF j = i THEN client_list[j] ELSE NewApiState[j]]

\* C20: a step of a client_transaction handler leaves every client but the
\* one asked for as it was, and what the handler decides is what it would
\* decide with every other client in its initial state.
C20_Isolation ==
    [][\A c \in Callers :
          (req[c].op = "transacoes" /\ pc[c] \in {"locked", "add", "update"} /\ pc'[c] # pc[c]) =>
              /\ \A j \in Clients : j # Asked(c) => client_list'[j] = client_list[j]
              /\ pc[c] = "locked" =>
                    LET d == Decide(Alone(Asked(c)), req[c], overflow_checks)
                    IN  /\ pc'[c] = (IF d.go THEN "add" ELSE "ret")
                        /\ result'[c] = d.res
                        /\ future_value'[c] = d.fv]_vars

\* A debit on client 1 is answered 200 while client 2 holds a transaction.
C20_Witness ==
    \E c \in Callers :
        /\ Returning(c, "transacoes", 200)
        /\ req[c].client_id = Id1
        /\ req[c].payload.tipo = "d"
        /\ client_list[2].transacoes # <<>>
====
